---------------------------- MODULE Spec2Model ----------------------------
(***************************************************************************)
(* Verification model of the equiflow CRM scaffold: the tenant-scoped      *)
(* ContactRepository (soft delete, tenant predicate), the time-ordered     *)
(* identifier generators and the UUID storage codec.                       *)
(*                                                                         *)
(* Eight specifications share the module:                                   *)
(*   Spec       the ContactRepository over one contacts table              *)
(*   GenSpec    the generateUUIDv7 copies and createActivityId             *)
(*   CodecSpec  UUIDUtils / EquiflowUUIDUtils conversions                  *)
(*   DecodeSpec the same functions and isValidUUID called on outside input *)
(*   StoreSpec  OptimizedCRMRepository over its contacts/activities tables *)
(*   ServiceSpec    contactRouter / ContactService, one request at a time  *)
(*   ConcurrentSpec the same with two requests interleaved                 *)
(*   PageSpec   getUsers of the worker, paged through by a client          *)
(***************************************************************************)
EXTENDS Integers, Sequences, FiniteSets, TLC

VARIABLES
    contacts,     \* the rows of the contacts table, in insertion order
    now,          \* the wall clock read by new Date()
    softDeleted,  \* <<id, tenantId>> pairs on which softDelete has matched a row: once, and again
    generated,    \* identifiers handed out by the time-ordered generators
    clock,        \* index of the instant Date.now() returns to the generators
    codec,        \* the value travelling through the codec and its origin
    call,         \* the last call of a codec or validation function on outside input
    store,        \* OptimizedCRMRepository: its strategy, its two tables, what the last call returned
    reqs,         \* the contactRouter requests in flight or answered, one per slot
    pages         \* a client paging through getUsers: its last request and answer, the users seen

repoVars == <<contacts, now, softDeleted>>
genVars == <<generated, clock>>
codecVars == <<codec, call>>
storeVars == <<store>>
serviceVars == <<reqs>>
pageVars == <<pages>>
vars == <<contacts, now, softDeleted, generated, clock, codec, call, store, reqs, pages>>

-----------------------------------------------------------------------------
(* Bounds *)

MaxTime == 2
MaxGenerated == 2
MaxStored == 2

-----------------------------------------------------------------------------
(* ContactRepository: domain values *)

\* deletedAt?: Date -- an unset deletedAt (SQL NULL)
NULL == 0

\* a key the Partial<Contact> patch does not carry
ABSENT == "absent"
AbsentDate == -1

\* values crypto.randomUUID() can return (opaque here; the codec part works on text)
ContactIds == {"c1", "c2"}
TenantIds == {"A", "B"}
Emails == {"x@e", "y@e"}
Dates == 1..MaxTime

\* Partial<Contact>: every key optional
PartialContact ==
    [id : ContactIds \cup {ABSENT},
     tenantId : TenantIds \cup {ABSENT},
     email : Emails \cup {ABSENT},
     createdAt : {AbsentDate, 1},
     updatedAt : {AbsentDate, 1},
     deletedAt : {AbsentDate, NULL, 1}]

PatchKeys(p) ==
    {k \in {"id", "tenantId", "email"} : p[k] # ABSENT}
      \cup {k \in {"createdAt", "updatedAt", "deletedAt"} : p[k] # AbsentDate}

\* the patches the requests of the model carry: the empty one and every one-key patch
Patches == {p \in PartialContact : Cardinality(PatchKeys(p)) <= 1}

\* Omit<Contact, 'id' | 'createdAt' | 'updatedAt'>
CreateData == [tenantId : TenantIds, email : Emails]

Ok == "ok"
CONTACT_NOT_FOUND == "CONTACT_NOT_FOUND"
DATABASE_ERROR == "DATABASE_ERROR"

-----------------------------------------------------------------------------
(* ContactRepository: the queries *)

RowIdx(rows) == DOMAIN rows

\* what the pair (id, tenantId) addresses in the table before a call
Target(rows, id, tenantId) ==
    IF \E i \in RowIdx(rows) : rows[i].id = id /\ rows[i].tenantId = tenantId /\ rows[i].deletedAt = NULL
      THEN "live"
    ELSE IF \E i \in RowIdx(rows) : rows[i].id = id /\ rows[i].tenantId = tenantId
      THEN "deleted"
    ELSE IF \E i \in RowIdx(rows) : rows[i].id = id /\ rows[i].deletedAt = NULL
      THEN "foreign"
    ELSE IF \E i \in RowIdx(rows) : rows[i].id = id
      THEN "foreignDeleted"
    ELSE "none"

findByIdWhereNoTenant(c, id, tenantId) ==
    c.id = id /\ c.deletedAt = NULL

findByIdWhereNoIsNull(c, id, tenantId) ==
    c.id = id /\ c.tenantId = tenantId

\* and(eq(contacts.id, id), eq(contacts.tenantId, this.tenantId), isNull(contacts.deletedAt))
findByIdWhere(c, id, tenantId) ==
    c.id = id /\ c.tenantId = tenantId /\ c.deletedAt = NULL

\* select().from(contacts).where(...).limit(1)
findByIdRows(rows, id, tenantId) ==
    LET hit == SelectSeq(rows, LAMBDA c : findByIdWhere(c, id, tenantId))
    IN  IF Len(hit) > 0 THEN <<hit[1]>> ELSE <<>>

\* results.length > 0 ? ok(results[0]) : err(CONTACT_NOT_FOUND)
findById(rows, id, tenantId) ==
    LET results == findByIdRows(rows, id, tenantId)
    IN  IF Len(results) > 0
          THEN [type |-> Ok, value |-> results]
          ELSE [type |-> CONTACT_NOT_FOUND, value |-> <<>>]

-----------------------------------------------------------------------------
(* ContactRepository: the writes *)

\* PRIMARY KEY on contacts.id: the statement is rejected when two rows would share an id
PrimaryKeyOk(rows) ==
    \A i, j \in RowIdx(rows) : rows[i].id = rows[j].id => i = j

\* { ...data, id, createdAt: now, updatedAt: now }
NewContact(data, id, t) ==
    [id |-> id, tenantId |-> data.tenantId, email |-> data.email,
     createdAt |-> t, updatedAt |-> t, deletedAt |-> NULL]

createRows(rows, data, id, t) ==
    LET ins == Append(rows, NewContact(data, id, t))
    IN  IF PrimaryKeyOk(ins) THEN ins ELSE rows

createResult(rows, data, id, t) ==
    IF PrimaryKeyOk(Append(rows, NewContact(data, id, t))) THEN Ok ELSE DATABASE_ERROR

updateWhereNoTenant(c, id, tenantId) ==
    c.id = id /\ c.deletedAt = NULL

updateWhereNoIsNull(c, id, tenantId) ==
    c.id = id /\ c.tenantId = tenantId

\* and(eq(contacts.id, id), eq(contacts.tenantId, this.tenantId), isNull(contacts.deletedAt))
updateWhere(c, id, tenantId) ==
    c.id = id /\ c.tenantId = tenantId /\ c.deletedAt = NULL

\* .set({ ...data, updatedAt: new Date() })
updateSet(c, data, t) ==
    [id |-> IF data.id = ABSENT THEN c.id ELSE data.id,
     tenantId |-> IF data.tenantId = ABSENT THEN c.tenantId ELSE data.tenantId,
     email |-> IF data.email = ABSENT THEN c.email ELSE data.email,
     createdAt |-> IF data.createdAt = AbsentDate THEN c.createdAt ELSE data.createdAt,
     updatedAt |-> t,
     deletedAt |-> IF data.deletedAt = AbsentDate THEN c.deletedAt ELSE data.deletedAt]

updateStatement(rows, id, tenantId, data, t) ==
    [i \in RowIdx(rows) |->
        IF updateWhere(rows[i], id, tenantId) THEN updateSet(rows[i], data, t) ELSE rows[i]]

updateRows(rows, id, tenantId, data, t) ==
    LET upd == updateStatement(rows, id, tenantId, data, t)
    IN  IF PrimaryKeyOk(upd) THEN upd ELSE rows

updateResultIgnoresCount(rows, id, tenantId, data, t) ==
    IF ~PrimaryKeyOk(updateStatement(rows, id, tenantId, data, t)) THEN DATABASE_ERROR ELSE Ok

\* results.length > 0 ? ok(results[0]) : err(CONTACT_NOT_FOUND)
updateResult(rows, id, tenantId, data, t) ==
    IF ~PrimaryKeyOk(updateStatement(rows, id, tenantId, data, t)) THEN DATABASE_ERROR
    ELSE IF \E i \in RowIdx(rows) : updateWhere(rows[i], id, tenantId) THEN Ok
    ELSE CONTACT_NOT_FOUND

softDeleteWhereNoTenant(c, id, tenantId) ==
    c.id = id

\* and(eq(contacts.id, id), eq(contacts.tenantId, this.tenantId)) -- no isNull(deletedAt)
softDeleteWhere(c, id, tenantId) ==
    c.id = id /\ c.tenantId = tenantId

softDeleteRowsHardDelete(rows, id, tenantId, t) ==
    SelectSeq(rows, LAMBDA c : ~softDeleteWhere(c, id, tenantId))

\* .set({ deletedAt: new Date() })
softDeleteRows(rows, id, tenantId, t) ==
    [i \in RowIdx(rows) |->
        IF softDeleteWhere(rows[i], id, tenantId) THEN [rows[i] EXCEPT !.deletedAt = t] ELSE rows[i]]

softDeleteResultNotFound(rows, id, tenantId) ==
    IF \E i \in RowIdx(rows) : softDeleteWhere(rows[i], id, tenantId) /\ rows[i].deletedAt = NULL
      THEN Ok ELSE CONTACT_NOT_FOUND

\* .map(() => undefined): the row count of the UPDATE is never looked at
softDeleteResult(rows, id, tenantId) == Ok

-----------------------------------------------------------------------------
(***************************************************************************)
(* ContactRepository: one action per writing method; tenantId is           *)
(* this.tenantId. findById reads only and is evaluated as an operator.     *)
(***************************************************************************)

Create(tenantId, data, id) ==
    /\ contacts' = createRows(contacts, data, id, now)
    /\ UNCHANGED <<now, softDeleted>>

Update(tenantId, id, data) ==
    /\ contacts' = updateRows(contacts, id, tenantId, data, now)
    /\ UNCHANGED <<now, softDeleted>>

SoftDelete(tenantId, id) ==
    /\ contacts' = softDeleteRows(contacts, id, tenantId, now)
    /\ softDeleted' =
         IF \E i \in RowIdx(contacts) : softDeleteWhere(contacts[i], id, tenantId)
           THEN [once |-> softDeleted.once \cup {<<id, tenantId>>},
                 again |-> softDeleted.again \cup (softDeleted.once \cap {<<id, tenantId>>})]
           ELSE softDeleted
    /\ UNCHANGED now

\* time passes between requests
Tick ==
    /\ now < MaxTime
    /\ now' = now + 1
    /\ UNCHANGED <<contacts, softDeleted>>

-----------------------------------------------------------------------------
(***************************************************************************)
(* ContactService and contactRouter. A request occupies a slot; each       *)
(* await of a repository call is one step, so that other requests can run  *)
(* between the check and the write of a procedure.                         *)
(***************************************************************************)

VALIDATION_ERROR == "VALIDATION_ERROR"
DUPLICATE_EMAIL == "DUPLICATE_EMAIL"

\* an input that z.string().email() refuses
INVALID_EMAIL == "not-an-email"
InputEmails == Emails \cup {INVALID_EMAIL}

Slots == {1, 2}

\* TRPCError codes
BAD_REQUEST == "BAD_REQUEST"
CONFLICT == "CONFLICT"
NOT_FOUND == "NOT_FOUND"
INTERNAL_SERVER_ERROR == "INTERNAL_SERVER_ERROR"
NoCode == "none"

\* CreateContactSchema.safeParse(input).success
CreateContactSchema(input) == input.email \in Emails

\* CreateContactSchema.partial().extend({ id }): every field may be missing
UpdateContactSchema(input) == input.email \in Emails \cup {ABSENT}

\* and(eq(contacts.email, email), eq(contacts.tenantId, this.tenantId), isNull(contacts.deletedAt))
findByEmailWhere(c, email, tenantId) ==
    c.email = email /\ c.tenantId = tenantId /\ c.deletedAt = NULL

\* .limit(1), results.length > 0 ? results[0] : null -- null is the empty sequence
findByEmail(rows, email, tenantId) ==
    LET results == SelectSeq(rows, LAMBDA c : findByEmailWhere(c, email, tenantId))
    IN  IF Len(results) > 0 THEN <<results[1]>> ELSE <<>>

\* existingContactResult.value !== null
createContactCheck(rows, email, tenantId) ==
    findByEmail(rows, email, tenantId) # <<>>

updateContactCheckAnyHolder(rows, id, email, tenantId) ==
    LET existing == findByEmail(rows, email, tenantId)
    IN  existing # <<>>

\* existingContactResult.value && existingContactResult.value.id !== id
updateContactCheck(rows, id, email, tenantId) ==
    LET existing == findByEmail(rows, email, tenantId)
    IN  existing # <<>> /\ existing[1].id # id

deleteContactCheckSkipped(rows, id, tenantId) == FALSE

\* contactResult.isErr()
deleteContactCheck(rows, id, tenantId) ==
    findById(rows, id, tenantId).type # Ok

\* contacts.create: match(result) with its error switch
contactRouterCreate(type) ==
    IF type = Ok THEN NoCode
    ELSE IF type = VALIDATION_ERROR THEN BAD_REQUEST
    ELSE IF type = DUPLICATE_EMAIL THEN CONFLICT
    ELSE INTERNAL_SERVER_ERROR

\* contacts.update: match(result) with its error switch
contactRouterUpdate(type) ==
    IF type = Ok THEN NoCode
    ELSE IF type = CONTACT_NOT_FOUND THEN NOT_FOUND
    ELSE IF type = VALIDATION_ERROR THEN BAD_REQUEST
    ELSE INTERNAL_SERVER_ERROR

\* contacts.delete: match(result) with its error branch
contactRouterDelete(type) ==
    IF type = Ok THEN NoCode
    ELSE IF type = CONTACT_NOT_FOUND THEN NOT_FOUND
    ELSE INTERNAL_SERVER_ERROR

\* { ...updateData }: the parsed input without id; the schema has no tenantId, updatedAt or deletedAt key
updateData(email) ==
    [id |-> ABSENT, tenantId |-> ABSENT, email |-> email,
     createdAt |-> AbsentDate, updatedAt |-> AbsentDate, deletedAt |-> AbsentDate]

IdleRequest ==
    [op |-> "none", tenantId |-> ABSENT, id |-> ABSENT, email |-> ABSENT,
     pc |-> "idle", result |-> NoCode, code |-> NoCode]

InFlight(r) == r.pc \in {"check", "write"}

Request(op, tenantId, id, email, pc) ==
    [op |-> op, tenantId |-> tenantId, id |-> id, email |-> email,
     pc |-> pc, result |-> NoCode, code |-> NoCode]

\* the procedure returns or throws: what is left of the request is the result of
\* the service and the code the router gives it
Answered(r, type, code) ==
    [IdleRequest EXCEPT !.op = r.op, !.pc = "done", !.result = type, !.code = code]

ServiceIdle == reqs = [s \in Slots |-> IdleRequest]

-----------------------------------------------------------------------------
(* Text: a string is the sequence of its UTF-16 code units *)

Min(a, b) == IF a < b THEN a ELSE b

\* '-'
DASH == 45
\* '0'
ZERO == 48
\* '7'
SEVEN == 55

\* Number.prototype.toString(16) of one digit: '0'..'9', 'a'..'f'
HexChar(d) == IF d < 10 THEN 48 + d ELSE 87 + d

\* the value parseInt(_, 16) gives one character; -1 when it is no hex digit
HexVal(c) ==
    IF c >= 48 /\ c <= 57 THEN c - 48
    ELSE IF c >= 97 /\ c <= 102 THEN c - 87
    ELSE IF c >= 65 /\ c <= 70 THEN c - 55
    ELSE -1

NaN == -1

\* String.prototype.substring(start, end), both within 0..
substring(str, start, end) ==
    SubSeq(str, Min(start, Len(str)) + 1, Min(end, Len(str)))

\* String.prototype.substring(start)
substringFrom(str, start) == substring(str, start, Len(str))

\* String.prototype.substr(start, length)
substr(str, start, length) == substring(str, start, start + length)

\* uuid.replace(/-/g, '')
removeDashes(str) == SelectSeq(str, LAMBDA c : c # DASH)

padStartNone(str, n, c) == str

\* String.prototype.padStart(n, c)
padStart(str, n, c) ==
    IF Len(str) >= n THEN str ELSE [k \in 1..(n - Len(str)) |-> c] \o str

RECURSIVE join(_, _)
\* Array.prototype.join(sep)
join(parts, sep) ==
    IF Len(parts) = 0 THEN <<>>
    ELSE IF Len(parts) = 1 THEN parts[1]
    ELSE parts[1] \o sep \o join(Tail(parts), sep)

RECURSIVE HexPrefix(_)
\* the longest prefix of hex digits, which is all parseInt(_, 16) reads
HexPrefix(str) ==
    IF Len(str) = 0 \/ HexVal(Head(str)) < 0 THEN <<>>
    ELSE <<Head(str)>> \o HexPrefix(Tail(str))

RECURSIVE HexNumber(_)
HexNumber(digits) ==
    IF Len(digits) = 0 THEN 0
    ELSE 16 * HexNumber(SubSeq(digits, 1, Len(digits) - 1)) + HexVal(digits[Len(digits)])

\* parseInt(str, 16) of a short string (the two characters of one byte)
parseInt(str) ==
    IF Len(HexPrefix(str)) = 0 THEN NaN ELSE HexNumber(HexPrefix(str))

\* storing a number into a Uint8Array element: NaN becomes 0, the rest wraps to 8 bits
ToUint8(n) == IF n = NaN THEN 0 ELSE n % 256

\* b.toString(16) of a byte
byteToString16(b) ==
    IF b < 16 THEN <<HexChar(b)>> ELSE <<HexChar(b \div 16), HexChar(b % 16)>>

-----------------------------------------------------------------------------
(* Timestamps: a millisecond count below 2^48, kept as three 16-bit limbs  *)
(* (most significant first) because it exceeds the checker's integers.     *)

LimbHex(l) ==
    <<HexChar(l \div 4096), HexChar((l \div 256) % 16), HexChar((l \div 16) % 16), HexChar(l % 16)>>

RECURSIVE StripZeros(_)
StripZeros(str) ==
    IF Len(str) > 1 /\ Head(str) = ZERO THEN StripZeros(Tail(str)) ELSE str

\* timestamp.toString(16): no leading zeros
timestampToString16(t) == StripZeros(LimbHex(t[1]) \o LimbHex(t[2]) \o LimbHex(t[3]))

\* parseInt(hex, 16) of up to twelve characters, as a timestamp
parseIntTimestamp(hex) ==
    LET p == HexPrefix(hex)
        d == padStart(p, 12, ZERO)
    IN  IF Len(p) = 0 THEN <<NaN, NaN, NaN>>
        ELSE <<HexNumber(SubSeq(d, 1, 4)), HexNumber(SubSeq(d, 5, 8)), HexNumber(SubSeq(d, 9, 12))>>

TimeLess(t1, t2) ==
    \/ t1[1] < t2[1]
    \/ t1[1] = t2[1] /\ t1[2] < t2[2]
    \/ t1[1] = t2[1] /\ t1[2] = t2[2] /\ t1[3] < t2[3]

-----------------------------------------------------------------------------
(* UUIDUtils (examples/uuid-blob-storage-example.ts) *)

stringToBytesOffByOne(uuid) ==
    LET hex == removeDashes(uuid)
    IN  [i \in 1..16 |-> ToUint8(parseInt(substr(hex, (i - 1) * 2 + 1, 2)))]

stringToBytesLittleEndian(uuid) ==
    LET hex == removeDashes(uuid)
    IN  [i \in 1..16 |-> ToUint8(parseInt(substr(hex, (16 - i) * 2, 2)))]

\* for (i = 0; i < 16; i++) bytes[i] = parseInt(hex.substr(i * 2, 2), 16)
stringToBytes(uuid) ==
    LET hex == removeDashes(uuid)
    IN  [i \in 1..16 |-> ToUint8(parseInt(substr(hex, (i - 1) * 2, 2)))]

bytesToStringNoPad(bytes) ==
    LET hex == join([i \in 1..Len(bytes) |-> byteToString16(bytes[i])], <<>>)
    IN  join(<<substring(hex, 0, 8), substring(hex, 8, 12), substring(hex, 12, 16),
               substring(hex, 16, 20), substring(hex, 20, 32)>>, <<DASH>>)

\* Array.from(bytes).map(b => b.toString(16).padStart(2, '0')).join(''), then 8-4-4-4-12
bytesToString(bytes) ==
    LET hex == join([i \in 1..Len(bytes) |-> padStart(byteToString16(bytes[i]), 2, ZERO)], <<>>)
    IN  join(<<substring(hex, 0, 8), substring(hex, 8, 12), substring(hex, 12, 16),
               substring(hex, 16, 20), substring(hex, 20, 32)>>, <<DASH>>)

stringToCompact(uuid) == removeDashes(uuid)

compactToStringShort(compact) ==
    join(<<substring(compact, 0, 8), substring(compact, 8, 12), substring(compact, 12, 16),
           substring(compact, 16, 20), substring(compact, 20, 31)>>, <<DASH>>)

compactToString(compact) ==
    join(<<substring(compact, 0, 8), substring(compact, 8, 12), substring(compact, 12, 16),
           substring(compact, 16, 20), substring(compact, 20, 32)>>, <<DASH>>)

extractTimestampShort(uuid) ==
    parseIntTimestamp(substring(removeDashes(uuid), 0, 11))

\* the string branch: parseInt(uuid.replace(/-/g, '').substring(0, 12), 16)
extractTimestamp(uuid) ==
    parseIntTimestamp(substring(removeDashes(uuid), 0, 12))

extractTimestampBytesNoPad(bytes) ==
    parseIntTimestamp(
        join([i \in 1..Min(6, Len(bytes)) |-> byteToString16(bytes[i])], <<>>))

\* the Uint8Array branch: the first six bytes, two padded hex digits each
extractTimestampBytes(bytes) ==
    parseIntTimestamp(
        join([i \in 1..Min(6, Len(bytes)) |-> padStart(byteToString16(bytes[i]), 2, ZERO)], <<>>))

-----------------------------------------------------------------------------
(* EquiflowUUIDUtils (part_003) *)

toBlob(uuid) ==
    LET hex == removeDashes(uuid)
    IN  [i \in 1..16 |-> ToUint8(parseInt(substr(hex, (i - 1) * 2, 2)))]

fromBlob(bytes) ==
    LET hex == join([i \in 1..Len(bytes) |-> padStart(byteToString16(bytes[i]), 2, ZERO)], <<>>)
    IN  join(<<substring(hex, 0, 8), substring(hex, 8, 12), substring(hex, 12, 16),
               substring(hex, 16, 20), substring(hex, 20, 32)>>, <<DASH>>)

-----------------------------------------------------------------------------
(* UUIDStorageStrategy and the conversions OptimizedCRMRepository applies *)

BLOB == "blob"
COMPACT_STRING == "compact"
FULL_STRING == "string"
UUIDStorageStrategy == {BLOB, COMPACT_STRING, FULL_STRING}

\* switch (this.storageStrategy) before a statement: the value bound to the ? of an id
storedId(storageStrategy, id) ==
    CASE storageStrategy = BLOB -> stringToBytes(id)
      [] storageStrategy = COMPACT_STRING -> stringToCompact(id)
      [] OTHER -> id

\* the stored id of a row, back as a string
convertStoredIdToString(storageStrategy, stored) ==
    CASE storageStrategy = BLOB -> bytesToString(stored)
      [] storageStrategy = COMPACT_STRING -> compactToString(stored)
      [] OTHER -> stored

-----------------------------------------------------------------------------
(* isValidUUID (src/lib/utils.ts): a regular expression is the sequence of *)
(* its items, each a character class repeated a fixed number of times      *)

\* [0-9a-f]
HexClass == (48..57) \cup (97..102)
\* [1-7]
VersionClass == 49..55
\* [89ab]
VariantClass == {56, 57, 97, 98}

Item(class, count) == [class |-> class, count |-> count]

\* /^[0-9a-f]{8}-[0-9a-f]{4}-[1-7][0-9a-f]{3}-[89ab][0-9a-f]{3}-[0-9a-f]{12}$/
uuidRegex ==
    <<Item(HexClass, 8), Item({DASH}, 1), Item(HexClass, 4), Item({DASH}, 1),
      Item(VersionClass, 1), Item(HexClass, 3), Item({DASH}, 1),
      Item(VariantClass, 1), Item(HexClass, 3), Item({DASH}, 1), Item(HexClass, 12)>>

\* the i flag: a letter of a class matches in either case
IgnoreCase(class) ==
    class \cup {c - 32 : c \in class \cap (97..122)} \cup {c + 32 : c \in class \cap (65..90)}

RECURSIVE RegexTest(_, _, _)
\* RegExp.prototype.test of an anchored pattern: the items consume the whole string
RegexTest(items, str, flagI) ==
    IF Len(items) = 0 THEN Len(str) = 0
    ELSE LET class == IF flagI THEN IgnoreCase(Head(items).class) ELSE Head(items).class
             count == Head(items).count
         IN  /\ Len(str) >= count
             /\ \A k \in 1..count : str[k] \in class
             /\ RegexTest(Tail(items), SubSeq(str, count + 1, Len(str)), flagI)

isValidUUIDCaseSensitive(uuid) == RegexTest(uuidRegex, uuid, FALSE)

isValidUUID(uuid) == RegexTest(uuidRegex, uuid, TRUE)

-----------------------------------------------------------------------------
(* The time-ordered generators *)

\* examples/uuid-blob-storage-example.ts
generateUUIDv7Blob(t, random) ==
    LET timestampHex == padStart(timestampToString16(t), 12, ZERO)
        randomPart == substringFrom(removeDashes(random), 12)
    IN  join(<<substring(timestampHex, 0, 8),
               substring(timestampHex, 8, 12),
               <<SEVEN>> \o substring(timestampHex, 12, 15),
               substring(randomPart, 0, 4),
               substring(randomPart, 4, 16)>>, <<DASH>>)

\* examples/uuid-strategy-example.ts
generateUUIDv7Strategy(t, random) ==
    LET timestampHex == padStart(timestampToString16(t), 12, ZERO)
        randomPart == substringFrom(removeDashes(random), 12)
    IN  join(<<substring(timestampHex, 0, 8),
               substring(timestampHex, 8, 12),
               <<SEVEN>> \o substring(timestampHex, 12, 15),
               substring(randomPart, 0, 4),
               substring(randomPart, 4, 16)>>, <<DASH>>)

\* src/lib/utils.ts: return crypto.randomUUID()
generateUUIDv4(random) == random

\* src/lib/utils.ts: a template string
generateUUIDv7(t, random) ==
    LET timestampHex == padStart(timestampToString16(t), 12, ZERO)
        randomHex == substringFrom(removeDashes(random), 12)
    IN  substring(timestampHex, 0, 8) \o <<DASH>> \o substring(timestampHex, 8, 12)
          \o <<DASH, SEVEN>> \o substring(randomHex, 0, 3)
          \o <<DASH>> \o substring(randomHex, 3, 7)
          \o <<DASH>> \o substring(randomHex, 7, 19)

\* EquiflowUUIDUtils.createActivityId: the v7UUID string it builds
createActivityIdText(t, random) ==
    LET timestampHex == padStart(timestampToString16(t), 12, ZERO)
        randomPart == substringFrom(removeDashes(random), 12)
    IN  join(<<substring(timestampHex, 0, 8),
               substring(timestampHex, 8, 12),
               <<SEVEN>> \o substring(timestampHex, 12, 15),
               substring(randomPart, 0, 4),
               substring(randomPart, 4, 16)>>, <<DASH>>)

\* return this.toBlob(v7UUID)
createActivityId(t, random) == toBlob(createActivityIdText(t, random))

RepoInit ==
    /\ contacts = <<>>
    /\ now = 1
    /\ softDeleted = [once |-> {}, again |-> {}]

-----------------------------------------------------------------------------
(* Sample inputs of the generators and the codec *)

\* the canonical text of 32 hex digits: separators after digits 8, 12, 16 and 20
Canonical(nibbles) ==
    [k \in 1..36 |->
        IF k \in {9, 14, 19, 24} THEN DASH
        ELSE LET n == k - (IF k > 9 THEN 1 ELSE 0) - (IF k > 14 THEN 1 ELSE 0)
                        - (IF k > 19 THEN 1 ELSE 0) - (IF k > 24 THEN 1 ELSE 0)
             IN  IF nibbles[n] < 10 THEN 48 + nibbles[n] ELSE 87 + nibbles[n]]

Nibbles(a, b) == [k \in 1..32 |-> (a * (k - 1) + b) % 16]

\* 550e8400-e29b-41d4-a716-446655440000
ExampleId ==
    Canonical(<<5, 5, 0, 14, 8, 4, 0, 0, 14, 2, 9, 11, 4, 1, 13, 4,
                10, 7, 1, 6, 4, 4, 6, 6, 5, 5, 4, 4, 0, 0, 0, 0>>)

\* 55 0e 84 00 e2 9b 41 d4 a7 16 44 66 55 44 00 00
ExampleBytes == <<85, 14, 132, 0, 226, 155, 65, 212, 167, 22, 68, 102, 85, 68, 0, 0>>

CanonicalIds ==
    {Canonical(Nibbles(a, b)) : a \in {0, 1, 3, 7}, b \in {0, 5, 10, 15}} \cup {ExampleId}

\* identifiers that differ from 00000000-0000-4000-8000-000000000000 in one hex digit
Neighbour(k, d) == Canonical([[n \in 1..32 |-> 0] EXCEPT ![13] = 4, ![17] = 8, ![k] = d])

NeighbourIds ==
    {Neighbour(32, 9), Neighbour(32, 10), Neighbour(31, 1), Neighbour(8, 10), Neighbour(9, 1)}

\* crypto.randomUUID(): version nibble 4, variant nibble in 8..b, the rest random
RandomV4(n) == Canonical([n EXCEPT ![13] = 4, ![17] = 8 + (n[17] % 4)])

RandomUUIDs == {RandomV4(Nibbles(1, 0)), RandomV4(Nibbles(0, 15)), ExampleId}

\* the instants Date.now() returns, in order: 0, 9, 16, 1700000000000, 2^48 - 1
Times == << <<0, 0, 0>>, <<0, 0, 9>>, <<0, 0, 16>>, <<395, 53221, 26624>>, <<65535, 65535, 65535>> >>

\* String.prototype.toUpperCase
Upper(str) == [k \in DOMAIN str |-> IF str[k] \in 97..122 THEN str[k] - 32 ELSE str[k]]

\* 'g'
LetterG == 103

\* 550e8400e29b41d4a716446655440000
ExampleCompact == SelectSeq(ExampleId, LAMBDA c : c # DASH)

\* strings a caller can pass: identifiers of every version, upper case, wrong sizes, bad characters
TextInputs ==
    {ExampleId, Upper(ExampleId), RandomV4(Nibbles(1, 0)),
     Canonical(Nibbles(0, 0)), Canonical(Nibbles(0, 5)),
     Canonical([Nibbles(0, 0) EXCEPT ![13] = 8, ![17] = 8]),
     Canonical([Nibbles(0, 0) EXCEPT ![13] = 7, ![17] = 12]),
     generateUUIDv7(Times[4], ExampleId), generateUUIDv7Blob(Times[4], ExampleId),
     <<>>, SubSeq(ExampleId, 1, 8), SubSeq(ExampleId, 1, 35), ExampleId \o <<ZERO>>,
     ExampleCompact, SubSeq(ExampleCompact, 1, 31), ExampleCompact \o <<ZERO>>,
     [ExampleId EXCEPT ![1] = LetterG], [ExampleId EXCEPT ![2] = LetterG],
     [ExampleCompact EXCEPT ![2] = LetterG],
     [ExampleId EXCEPT ![9] = 101, ![10] = DASH]}

\* byte arrays a caller can pass
ByteInputs ==
    {ExampleBytes, <<>>, <<85>>, SubSeq(ExampleBytes, 1, 15), ExampleBytes \o <<0>>,
     <<1, 139, 207, 229, 104, 0, 113, 212, 167, 22, 68, 102, 85, 68, 0, 0>>}

-----------------------------------------------------------------------------
(* DecodeSpec: the codec, extractTimestamp and isValidUUID are called on   *)
(* whatever a caller passes; none of them has a throw or an error return   *)

\* the function returns: `return bytes`, `return [...].join('-')`, `return uuidRegex.test(uuid)`
Returned(fn, input, value) ==
    call' = [fn |-> fn, input |-> input, outcome |-> "returned", value |-> value]

CallStringToBytes(uuid) == Returned("stringToBytes", uuid, stringToBytes(uuid))

CallBytesToString(bytes) == Returned("bytesToString", bytes, bytesToString(bytes))

CallStringToCompact(uuid) == Returned("stringToCompact", uuid, stringToCompact(uuid))

CallCompactToString(compact) == Returned("compactToString", compact, compactToString(compact))

CallToBlob(uuid) == Returned("toBlob", uuid, toBlob(uuid))

CallFromBlob(bytes) == Returned("fromBlob", bytes, fromBlob(bytes))

CallExtractTimestamp(uuid) == Returned("extractTimestamp", uuid, extractTimestamp(uuid))

CallExtractTimestampBytes(bytes) ==
    Returned("extractTimestampBytes", bytes, extractTimestampBytes(bytes))

CallIsValidUUID(uuid) == Returned("isValidUUID", uuid, isValidUUID(uuid))

-----------------------------------------------------------------------------
(* OptimizedCRMRepository (examples/uuid-blob-storage-example.ts)          *)

\* tenant ids callers pass, as canonical text
TenantTexts == {Neighbour(8, 10), Neighbour(9, 1)}

\* Omit<Contact, 'id' | 'createdAt' | 'updatedAt'>
ContactInput == [tenantId : TenantTexts, email : Emails]

\* id ... PRIMARY KEY
PrimaryKeyFree(rows, id) == \A i \in DOMAIN rows : rows[i].id # id

\* UNIQUE(tenant_id, email)
TenantEmailFree(rows, tenant_id, email) ==
    \A i \in DOMAIN rows : ~(rows[i].tenant_id = tenant_id /\ rows[i].email = email)

\* INSERT INTO contacts (id, tenant_id, ..., email, created_at, updated_at)
ContactRow(storageStrategy, contact, id, t) ==
    [id |-> storedId(storageStrategy, id),
     tenant_id |-> storedId(storageStrategy, contact.tenantId),
     email |-> contact.email, created_at |-> t, updated_at |-> t, deleted_at |-> NULL]

\* INSERT INTO activities (id, contact_id, tenant_id, ..., created_at, updated_at)
ActivityRow(storageStrategy, activity, id, t) ==
    [id |-> storedId(storageStrategy, id),
     contact_id |-> storedId(storageStrategy, activity.contactId),
     tenant_id |-> storedId(storageStrategy, activity.tenantId),
     occurred_at |-> t, created_at |-> t, updated_at |-> t]

\* await this.db.run(...) rejects and the method throws with it
Threw == [kind |-> "threw", entity |-> <<>>]

\* new Date() / Date.now() in the repository: the wall clock, at recent instants
StoreClock == Times[Min(now + 2, Len(Times))]

\* createContact: id = randomUUID(), now = new Date()
createContact(contact, id) ==
    LET t == StoreClock
        row == ContactRow(store.storageStrategy, contact, id, t)
    IN  /\ Len(store.contacts) + Len(store.activities) < MaxStored
        /\ IF PrimaryKeyFree(store.contacts, row.id)
                /\ TenantEmailFree(store.contacts, row.tenant_id, row.email)
             THEN store' = [store EXCEPT
                    !.contacts = Append(@, row),
                    !.returned = [kind |-> "contact",
                                  entity |-> [tenantId |-> contact.tenantId, email |-> contact.email,
                                              id |-> id, createdAt |-> t, updatedAt |-> t]]]
             ELSE store' = [store EXCEPT !.returned = Threw]

\* createActivity: id = generateUUIDv7(), now = new Date()
createActivity(activity, random) ==
    LET t == StoreClock
        id == generateUUIDv7Blob(t, random)
        row == ActivityRow(store.storageStrategy, activity, id, t)
    IN  /\ Len(store.contacts) + Len(store.activities) < MaxStored
        /\ IF PrimaryKeyFree(store.activities, row.id)
             THEN store' = [store EXCEPT
                    !.activities = Append(@, row),
                    !.returned = [kind |-> "activity",
                                  entity |-> [contactId |-> activity.contactId,
                                              tenantId |-> activity.tenantId,
                                              id |-> id, createdAt |-> t, updatedAt |-> t]]]
             ELSE store' = [store EXCEPT !.returned = Threw]

\* WHERE id = ? AND tenant_id = ? AND deleted_at IS NULL
findContactByIdWhere(row, queryId, queryTenantId) ==
    row.id = queryId /\ row.tenant_id = queryTenantId /\ row.deleted_at = NULL

\* { ...result, id: convertStoredIdToString(result.id), tenantId: convertStoredIdToString(result.tenant_id) }
ContactOfRow(storageStrategy, result) ==
    [id |-> convertStoredIdToString(storageStrategy, result.id),
     tenantId |-> convertStoredIdToString(storageStrategy, result.tenant_id),
     tenant_id |-> result.tenant_id,
     email |-> result.email, created_at |-> result.created_at,
     updated_at |-> result.updated_at, deleted_at |-> result.deleted_at]

\* findContactById: the query ids in the stored encoding, db.get, null when there is no row
findContactById(id, tenantId) ==
    LET queryId == storedId(store.storageStrategy, id)
        queryTenantId == storedId(store.storageStrategy, tenantId)
        result == SelectSeq(store.contacts,
                            LAMBDA row : findContactByIdWhere(row, queryId, queryTenantId))
    IN  store' = [store EXCEPT !.returned =
                    IF result = <<>>
                      THEN [kind |-> "null", entity |-> <<>>]
                      ELSE [kind |-> "found",
                            entity |-> ContactOfRow(store.storageStrategy, result[1])]]

\* { ...row, id: ..., contactId: convertStoredIdToString(row.contact_id), tenantId: ... }
ActivityOfRow(storageStrategy, row) ==
    [id |-> convertStoredIdToString(storageStrategy, row.id),
     contactId |-> convertStoredIdToString(storageStrategy, row.contact_id),
     tenantId |-> convertStoredIdToString(storageStrategy, row.tenant_id),
     contact_id |-> row.contact_id, tenant_id |-> row.tenant_id,
     occurred_at |-> row.occurred_at, created_at |-> row.created_at,
     updated_at |-> row.updated_at]

\* ORDER BY occurred_at DESC: a row goes before the rows that occurred earlier
RECURSIVE OrderByOccurredAtDesc(_)
OrderByOccurredAtDesc(rows) ==
    IF rows = <<>> THEN <<>>
    ELSE LET rest == OrderByOccurredAtDesc(Tail(rows))
             later == SelectSeq(rest, LAMBDA r : ~TimeLess(r.occurred_at, Head(rows).occurred_at)
                                                 /\ r.occurred_at # Head(rows).occurred_at)
             other == SelectSeq(rest, LAMBDA r : TimeLess(r.occurred_at, Head(rows).occurred_at)
                                                 \/ r.occurred_at = Head(rows).occurred_at)
         IN  later \o <<Head(rows)>> \o other

\* getRecentActivities: every activity of the model occurred within the last 30 days
getRecentActivities(contactId, tenantId) ==
    LET queryContactId == storedId(store.storageStrategy, contactId)
        queryTenantId == storedId(store.storageStrategy, tenantId)
        results == OrderByOccurredAtDesc(
                      SelectSeq(store.activities,
                                LAMBDA row : row.contact_id = queryContactId
                                             /\ row.tenant_id = queryTenantId))
    IN  store' = [store EXCEPT !.returned =
                    [kind |-> "activities",
                     entity |-> [k \in DOMAIN results |->
                                    ActivityOfRow(store.storageStrategy, results[k])]]]

\* the contacts a caller holds: ids returned by createContact, with their tenant
ActivityInput ==
    {[contactId |-> convertStoredIdToString(store.storageStrategy, store.contacts[i].id),
      tenantId |-> convertStoredIdToString(store.storageStrategy, store.contacts[i].tenant_id)] :
        i \in DOMAIN store.contacts}

\* new OptimizedCRMRepository(db): storageStrategy defaults to BLOB
StoreIdle ==
    store = [storageStrategy |-> BLOB, contacts |-> <<>>, activities |-> <<>>,
             returned |-> [kind |-> "none", entity |-> <<>>]]

-----------------------------------------------------------------------------
(* GenSpec: identifiers are generated while the clock advances *)

Generated(by, random, text, blob) ==
    [at |-> Times[clock], by |-> by, random |-> random, text |-> text, blob |-> blob]

GenerateBlobExample(random) ==
    /\ Len(generated) < MaxGenerated
    /\ generated' = Append(generated,
          Generated("generateUUIDv7Blob", random, generateUUIDv7Blob(Times[clock], random), <<>>))
    /\ UNCHANGED clock

GenerateStrategyExample(random) ==
    /\ Len(generated) < MaxGenerated
    /\ generated' = Append(generated,
          Generated("generateUUIDv7Strategy", random, generateUUIDv7Strategy(Times[clock], random), <<>>))
    /\ UNCHANGED clock

GenerateLib(random) ==
    /\ Len(generated) < MaxGenerated
    /\ generated' = Append(generated,
          Generated("generateUUIDv7", random, generateUUIDv7(Times[clock], random), <<>>))
    /\ UNCHANGED clock

CreateActivityId(random) ==
    /\ Len(generated) < MaxGenerated
    /\ generated' = Append(generated,
          Generated("createActivityId", random, createActivityIdText(Times[clock], random),
                    createActivityId(Times[clock], random)))
    /\ UNCHANGED clock

GenTick ==
    /\ clock < Len(Times)
    /\ clock' = clock + 1
    /\ UNCHANGED generated

GenIdle == generated = <<>> /\ clock = 1

-----------------------------------------------------------------------------
(* CodecSpec: one identifier is converted back and forth *)

Converted(form, data) ==
    [orig |-> codec.orig, form |-> form, data |-> data,
     through |-> codec.through \cup ({codec.form, form} \ {"canonical"})]

StringToBytes ==
    /\ codec.form = "canonical"
    /\ codec' = Converted("bytes", stringToBytes(codec.data))

BytesToString ==
    /\ codec.form = "bytes"
    /\ codec' = Converted("canonical", bytesToString(codec.data))

StringToCompact ==
    /\ codec.form = "canonical"
    /\ codec' = Converted("compact", stringToCompact(codec.data))

CompactToString ==
    /\ codec.form = "compact"
    /\ codec' = Converted("canonical", compactToString(codec.data))

ToBlob ==
    /\ codec.form = "canonical"
    /\ codec' = Converted("blob", toBlob(codec.data))

FromBlob ==
    /\ codec.form = "blob"
    /\ codec' = Converted("canonical", fromBlob(codec.data))

NoCall == call = [fn |-> "none", input |-> <<>>, outcome |-> "idle", value |-> <<>>]

CodecIdle ==
    /\ codec = [orig |-> <<>>, form |-> "idle", data |-> <<>>, through |-> {}]
    /\ NoCall

CodecInit ==
    /\ \E id \in CanonicalIds \cup NeighbourIds :
          codec = [orig |-> id, form |-> "canonical", data |-> id, through |-> {}]
    /\ NoCall

(***************************************************************************)
(* getUsers: the tRPC procedure of worker/trpc.ts with its fallback, the   *)
(* RPC method DataService.getUsers of worker/index.ts, and the procedure   *)
(* of part_001, each over the same 25 simulated users. Date.now() is       *)
(* counted in days (86400000 ms), the unit the users' createdAt differ by. *)
(***************************************************************************)

\* Array.from({ length: 25 }, ...)
UserCount == 25

\* `${i}`
Digits(i) == IF i < 10 THEN <<48 + i>> ELSE <<48 + (i \div 10), 48 + (i % 10)>>

\* { id: `user-${i}`, name: `User ${i}`, email: `user${i}@example.com`, createdAt: ... }
User(i, t) ==
    [id |-> <<117, 115, 101, 114, 45>> \o Digits(i),
     name |-> <<85, 115, 101, 114, 32>> \o Digits(i),
     email |-> <<117, 115, 101, 114>> \o Digits(i)
                 \o <<64, 101, 120, 97, 109, 112, 108, 101, 46, 99, 111, 109>>,
     createdAt |-> t - i]

\* String.prototype.toLowerCase on the letters A-Z
toLowerCase(str) ==
    [k \in DOMAIN str |-> IF str[k] \in 65..90 THEN str[k] + 32 ELSE str[k]]

\* String.prototype.includes
includes(str, searchString) ==
    \E k \in 0..(Len(str) - Len(searchString)) :
        SubSeq(str, k + 1, k + Len(searchString)) = searchString

sliceInclusiveEnd(array, start, end) ==
    SubSeq(array, Min(start, Len(array)) + 1, Min(end + 1, Len(array)))

\* Array.prototype.slice(start, end) with 0 <= start, end
slice(array, start, end) ==
    SubSeq(array, Min(start, Len(array)) + 1, Min(end, Len(array)))

\* the optional search: undefined, or a string
NoSearch == [given |-> FALSE, text |-> <<>>]
SearchText(text) == [given |-> TRUE, text |-> text]

\* if (input.search): undefined and '' are falsy
Truthy(search) == search.given /\ search.text # <<>>

\* user.name.toLowerCase().includes(...) || user.email.toLowerCase().includes(...)
UserMatches(user, search) ==
    \/ includes(toLowerCase(user.name), toLowerCase(search.text))
    \/ includes(toLowerCase(user.email), toLowerCase(search.text))

\* input.offset + input.limit < filteredUsers.length
hasMore(offset, limit, length) == offset + limit < length

\* worker/trpc.ts, the fallback implementation of appRouter.getUsers
getUsersFallback(input, t) ==
    LET allUsers == [k \in 1..UserCount |-> User(k - 1, t)]
        filteredUsers == IF Truthy(input.search)
                           THEN SelectSeq(allUsers, LAMBDA user : UserMatches(user, input.search))
                           ELSE allUsers
        users == slice(filteredUsers, input.offset, input.offset + input.limit)
    IN  [users |-> users, total |-> Len(filteredUsers),
         hasMore |-> hasMore(input.offset, input.limit, Len(filteredUsers))]

\* worker/index.ts, DataService.getUsers: ok({ users, total, hasMore })
getUsers(options, t) ==
    LET limit == options.limit
        offset == options.offset
        search == options.search
        allUsers == [k \in 1..UserCount |-> User(k - 1, t)]
        filteredUsers == IF Truthy(search)
                           THEN SelectSeq(allUsers, LAMBDA user : UserMatches(user, search))
                           ELSE allUsers
        users == slice(filteredUsers, offset, offset + limit)
    IN  [type |-> Ok,
         value |-> [users |-> users, total |-> Len(filteredUsers),
                    hasMore |-> hasMore(offset, limit, Len(filteredUsers))]]

\* part_001, appRouter.getUsers: the direct implementation, through resultToTRPC
getUsersDirect(input, t) ==
    LET allUsers == [k \in 1..UserCount |-> User(k - 1, t)]
        filteredUsers == IF Truthy(input.search)
                           THEN SelectSeq(allUsers, LAMBDA user : UserMatches(user, input.search))
                           ELSE allUsers
        users == slice(filteredUsers, input.offset, input.offset + input.limit)
    IN  [users |-> users, total |-> Len(filteredUsers),
         hasMore |-> hasMore(input.offset, input.limit, Len(filteredUsers))]

\* the three ways a getUsers request is served
Vias == {"fallback", "DATA_SERVICE", "direct"}

\* what the client receives; the Result of DataService.getUsers is read through its value
getUsersVia(via, input, t) ==
    CASE via = "fallback" -> getUsersFallback(input, t)
      [] via = "DATA_SERVICE" -> getUsers(input, t).value
      [] OTHER -> getUsersDirect(input, t)

\* z.number().min(1).max(100).default(10): the limits the clients of the model ask for
Limits == {1, 2, 10, 24, 25, 26, 100}

\* z.number().min(0).default(0): the offsets a client starts at
Offsets == {0, 1, 10, 24, 25, 40}

\* z.string().optional(): undefined, '', '1', 'r1', 'USER 2', 'Example', 'nobody'
Searches ==
    {NoSearch, SearchText(<<>>), SearchText(<<49>>), SearchText(<<114, 49>>),
     SearchText(<<85, 83, 69, 82, 32, 50>>),
     SearchText(<<69, 120, 97, 109, 112, 108, 101>>),
     SearchText(<<110, 111, 98, 111, 100, 121>>)}

PageIdle ==
    pages = [via |-> "none", input |-> [limit |-> 10, offset |-> 0, search |-> NoSearch],
             start |-> 0, at |-> 0,
             answer |-> [users |-> <<>>, total |-> 0, hasMore |-> FALSE],
             seen |-> <<>>]

Init == RepoInit /\ GenIdle /\ CodecIdle /\ StoreIdle /\ ServiceIdle /\ PageIdle

Next ==
    \/ \E t \in TenantIds, d \in CreateData, id \in ContactIds : Create(t, d, id) /\ UNCHANGED <<genVars, codecVars, storeVars, serviceVars, pageVars>>
    \/ \E t \in TenantIds, id \in ContactIds, p \in Patches : Update(t, id, p) /\ UNCHANGED <<genVars, codecVars, storeVars, serviceVars, pageVars>>
    \/ \E t \in TenantIds, id \in ContactIds : SoftDelete(t, id) /\ UNCHANGED <<genVars, codecVars, storeVars, serviceVars, pageVars>>
    \/ Tick /\ UNCHANGED <<genVars, codecVars, storeVars, serviceVars, pageVars>>

Spec == Init /\ [][Next]_vars

GenInit == RepoInit /\ GenIdle /\ CodecIdle /\ StoreIdle /\ ServiceIdle /\ PageIdle

GenNext ==
    \/ \E r \in RandomUUIDs : GenerateBlobExample(r) /\ UNCHANGED <<repoVars, codecVars, storeVars, serviceVars, pageVars>>
    \/ \E r \in RandomUUIDs : GenerateStrategyExample(r) /\ UNCHANGED <<repoVars, codecVars, storeVars, serviceVars, pageVars>>
    \/ \E r \in RandomUUIDs : GenerateLib(r) /\ UNCHANGED <<repoVars, codecVars, storeVars, serviceVars, pageVars>>
    \/ \E r \in RandomUUIDs : CreateActivityId(r) /\ UNCHANGED <<repoVars, codecVars, storeVars, serviceVars, pageVars>>
    \/ GenTick /\ UNCHANGED <<repoVars, codecVars, storeVars, serviceVars, pageVars>>

GenSpec == GenInit /\ [][GenNext]_vars

CodecSpecInit == RepoInit /\ GenIdle /\ CodecInit /\ StoreIdle /\ ServiceIdle /\ PageIdle

CodecNext ==
    \/ StringToBytes /\ UNCHANGED <<repoVars, genVars, call, storeVars, serviceVars, pageVars>>
    \/ BytesToString /\ UNCHANGED <<repoVars, genVars, call, storeVars, serviceVars, pageVars>>
    \/ StringToCompact /\ UNCHANGED <<repoVars, genVars, call, storeVars, serviceVars, pageVars>>
    \/ CompactToString /\ UNCHANGED <<repoVars, genVars, call, storeVars, serviceVars, pageVars>>
    \/ ToBlob /\ UNCHANGED <<repoVars, genVars, call, storeVars, serviceVars, pageVars>>
    \/ FromBlob /\ UNCHANGED <<repoVars, genVars, call, storeVars, serviceVars, pageVars>>

CodecSpec == CodecSpecInit /\ [][CodecNext]_vars

DecodeInit == RepoInit /\ GenIdle /\ CodecIdle /\ StoreIdle /\ ServiceIdle /\ PageIdle

DecodeNext ==
    \/ \E x \in TextInputs : CallStringToBytes(x) /\ UNCHANGED <<repoVars, genVars, codec, storeVars, serviceVars, pageVars>>
    \/ \E x \in ByteInputs : CallBytesToString(x) /\ UNCHANGED <<repoVars, genVars, codec, storeVars, serviceVars, pageVars>>
    \/ \E x \in TextInputs : CallStringToCompact(x) /\ UNCHANGED <<repoVars, genVars, codec, storeVars, serviceVars, pageVars>>
    \/ \E x \in TextInputs : CallCompactToString(x) /\ UNCHANGED <<repoVars, genVars, codec, storeVars, serviceVars, pageVars>>
    \/ \E x \in TextInputs : CallToBlob(x) /\ UNCHANGED <<repoVars, genVars, codec, storeVars, serviceVars, pageVars>>
    \/ \E x \in ByteInputs : CallFromBlob(x) /\ UNCHANGED <<repoVars, genVars, codec, storeVars, serviceVars, pageVars>>
    \/ \E x \in TextInputs : CallExtractTimestamp(x) /\ UNCHANGED <<repoVars, genVars, codec, storeVars, serviceVars, pageVars>>
    \/ \E x \in ByteInputs : CallExtractTimestampBytes(x) /\ UNCHANGED <<repoVars, genVars, codec, storeVars, serviceVars, pageVars>>
    \/ \E x \in TextInputs : CallIsValidUUID(x) /\ UNCHANGED <<repoVars, genVars, codec, storeVars, serviceVars, pageVars>>

DecodeSpec == DecodeInit /\ [][DecodeNext]_vars

\* new OptimizedCRMRepository(db, storageStrategy) over empty tables
StoreInit ==
    /\ RepoInit /\ GenIdle /\ CodecIdle /\ ServiceIdle /\ PageIdle
    /\ \E storageStrategy \in UUIDStorageStrategy :
          store = [storageStrategy |-> storageStrategy, contacts |-> <<>>, activities |-> <<>>,
                   returned |-> [kind |-> "none", entity |-> <<>>]]

StoreNext ==
    \/ \E c \in ContactInput, id \in RandomUUIDs :
          createContact(c, id) /\ UNCHANGED <<repoVars, genVars, codecVars, serviceVars, pageVars>>
    \/ \E a \in ActivityInput, r \in RandomUUIDs :
          createActivity(a, r) /\ UNCHANGED <<repoVars, genVars, codecVars, serviceVars, pageVars>>
    \/ \E id \in RandomUUIDs, tenantId \in TenantTexts :
          findContactById(id, tenantId) /\ UNCHANGED <<repoVars, genVars, codecVars, serviceVars, pageVars>>
    \/ \E contactId \in RandomUUIDs, tenantId \in TenantTexts :
          getRecentActivities(contactId, tenantId) /\ UNCHANGED <<repoVars, genVars, codecVars, serviceVars, pageVars>>
    \/ Tick /\ UNCHANGED <<genVars, codecVars, storeVars, serviceVars, pageVars>>

StoreSpec == StoreInit /\ [][StoreNext]_vars

-----------------------------------------------------------------------------
(***************************************************************************)
(* contactRouter procedures over ContactService(new ContactRepository(db,  *)
(* ctx.tenantId)): the synchronous head of a procedure, then one step per  *)
(* awaited repository call.                                                *)
(***************************************************************************)

\* contacts.create -> createContact: safeParse, then await findByEmail
CreateContactStart(s, tenantId, email) ==
    /\ ~InFlight(reqs[s])
    /\ LET r == Request("create", tenantId, ABSENT, email, "check")
       IN  reqs' = [reqs EXCEPT ![s] =
                      IF CreateContactSchema([email |-> email]) THEN r
                      ELSE Answered(r, VALIDATION_ERROR, contactRouterCreate(VALIDATION_ERROR))]
    /\ UNCHANGED repoVars

\* findByEmail has answered: DUPLICATE_EMAIL, or go on to repository.create
CreateContactFindByEmail(s) ==
    /\ reqs[s].op = "create" /\ reqs[s].pc = "check"
    /\ reqs' = [reqs EXCEPT ![s] =
                  IF createContactCheck(contacts, reqs[s].email, reqs[s].tenantId)
                    THEN Answered(reqs[s], DUPLICATE_EMAIL, contactRouterCreate(DUPLICATE_EMAIL))
                    ELSE [reqs[s] EXCEPT !.pc = "write"]]
    /\ UNCHANGED repoVars

\* return this.repository.create({ tenantId: this.repository['tenantId'], ... })
CreateContactCreate(s, id) ==
    /\ reqs[s].op = "create" /\ reqs[s].pc = "write"
    /\ LET data == [tenantId |-> reqs[s].tenantId, email |-> reqs[s].email]
           type == createResult(contacts, data, id, now)
       IN  /\ contacts' = createRows(contacts, data, id, now)
           /\ reqs' = [reqs EXCEPT ![s] = Answered(reqs[s], type, contactRouterCreate(type))]
    /\ UNCHANGED <<now, softDeleted>>

\* contacts.update -> updateContact: safeParse, then await findByEmail if (updateData.email)
UpdateContactStart(s, tenantId, id, email) ==
    /\ ~InFlight(reqs[s])
    /\ LET r == Request("update", tenantId, id, email, "check")
       IN  reqs' = [reqs EXCEPT ![s] =
                      IF ~UpdateContactSchema([id |-> id, email |-> email])
                        THEN Answered(r, VALIDATION_ERROR, contactRouterUpdate(VALIDATION_ERROR))
                      ELSE IF email = ABSENT THEN [r EXCEPT !.pc = "write"]
                      ELSE r]
    /\ UNCHANGED repoVars

\* findByEmail has answered: DUPLICATE_EMAIL, or go on to repository.update
UpdateContactFindByEmail(s) ==
    /\ reqs[s].op = "update" /\ reqs[s].pc = "check"
    /\ reqs' = [reqs EXCEPT ![s] =
                  IF updateContactCheck(contacts, reqs[s].id, reqs[s].email, reqs[s].tenantId)
                    THEN Answered(reqs[s], DUPLICATE_EMAIL, contactRouterUpdate(DUPLICATE_EMAIL))
                    ELSE [reqs[s] EXCEPT !.pc = "write"]]
    /\ UNCHANGED repoVars

\* return this.repository.update(id as ContactId, updateData)
UpdateContactUpdate(s) ==
    /\ reqs[s].op = "update" /\ reqs[s].pc = "write"
    /\ LET data == updateData(reqs[s].email)
           type == updateResult(contacts, reqs[s].id, reqs[s].tenantId, data, now)
       IN  /\ contacts' = updateRows(contacts, reqs[s].id, reqs[s].tenantId, data, now)
           /\ reqs' = [reqs EXCEPT ![s] = Answered(reqs[s], type, contactRouterUpdate(type))]
    /\ UNCHANGED <<now, softDeleted>>

\* contacts.delete -> deleteContact: await findById
DeleteContactStart(s, tenantId, id) ==
    /\ ~InFlight(reqs[s])
    /\ reqs' = [reqs EXCEPT ![s] = Request("delete", tenantId, id, ABSENT, "check")]
    /\ UNCHANGED repoVars

\* findById has answered: its error, or go on to repository.softDelete
DeleteContactFindById(s) ==
    /\ reqs[s].op = "delete" /\ reqs[s].pc = "check"
    /\ reqs' = [reqs EXCEPT ![s] =
                  IF deleteContactCheck(contacts, reqs[s].id, reqs[s].tenantId)
                    THEN Answered(reqs[s], CONTACT_NOT_FOUND, contactRouterDelete(CONTACT_NOT_FOUND))
                    ELSE [reqs[s] EXCEPT !.pc = "write"]]
    /\ UNCHANGED repoVars

\* return this.repository.softDelete(id)
DeleteContactSoftDelete(s) ==
    /\ reqs[s].op = "delete" /\ reqs[s].pc = "write"
    /\ LET type == softDeleteResult(contacts, reqs[s].id, reqs[s].tenantId)
       IN  /\ contacts' = softDeleteRows(contacts, reqs[s].id, reqs[s].tenantId, now)
           /\ reqs' = [reqs EXCEPT ![s] = Answered(reqs[s], type, contactRouterDelete(type))]
    /\ UNCHANGED <<now, softDeleted>>

\* no procedure is between two of its awaits
NoneInFlight == \A s \in Slots : ~InFlight(reqs[s])

ServiceInit == RepoInit /\ GenIdle /\ CodecIdle /\ StoreIdle /\ ServiceIdle /\ PageIdle

\* the awaited steps of whatever request is in flight
ServiceSteps ==
    \/ \E s \in Slots : CreateContactFindByEmail(s) /\ UNCHANGED <<genVars, codecVars, storeVars, pageVars>>
    \/ \E s \in Slots, id \in ContactIds : CreateContactCreate(s, id) /\ UNCHANGED <<genVars, codecVars, storeVars, pageVars>>
    \/ \E s \in Slots : UpdateContactFindByEmail(s) /\ UNCHANGED <<genVars, codecVars, storeVars, pageVars>>
    \/ \E s \in Slots : UpdateContactUpdate(s) /\ UNCHANGED <<genVars, codecVars, storeVars, pageVars>>
    \/ \E s \in Slots : DeleteContactFindById(s) /\ UNCHANGED <<genVars, codecVars, storeVars, pageVars>>
    \/ \E s \in Slots : DeleteContactSoftDelete(s) /\ UNCHANGED <<genVars, codecVars, storeVars, pageVars>>

\* one client that waits for each answer before its next call: one slot is enough
ServiceNext ==
    \/ \E s \in {1}, t \in TenantIds, e \in InputEmails :
          NoneInFlight /\ CreateContactStart(s, t, e) /\ UNCHANGED <<genVars, codecVars, storeVars, pageVars>>
    \/ \E s \in {1}, t \in TenantIds, id \in ContactIds, e \in InputEmails \cup {ABSENT} :
          NoneInFlight /\ UpdateContactStart(s, t, id, e) /\ UNCHANGED <<genVars, codecVars, storeVars, pageVars>>
    \/ \E s \in {1}, t \in TenantIds, id \in ContactIds :
          NoneInFlight /\ DeleteContactStart(s, t, id) /\ UNCHANGED <<genVars, codecVars, storeVars, pageVars>>
    \/ ServiceSteps

ServiceSpec == ServiceInit /\ [][ServiceNext]_vars

\* clients that call while other calls are in flight
ConcurrentNext ==
    \/ \E s \in Slots, t \in TenantIds, e \in InputEmails :
          CreateContactStart(s, t, e) /\ UNCHANGED <<genVars, codecVars, storeVars, pageVars>>
    \/ \E s \in Slots, t \in TenantIds, id \in ContactIds, e \in InputEmails \cup {ABSENT} :
          UpdateContactStart(s, t, id, e) /\ UNCHANGED <<genVars, codecVars, storeVars, pageVars>>
    \/ \E s \in Slots, t \in TenantIds, id \in ContactIds :
          DeleteContactStart(s, t, id) /\ UNCHANGED <<genVars, codecVars, storeVars, pageVars>>
    \/ ServiceSteps

ConcurrentSpec == ServiceInit /\ [][ConcurrentNext]_vars

-----------------------------------------------------------------------------
(* a client of getUsers: a first request, then the next page while hasMore *)

Ids(users) == [k \in DOMAIN users |-> users[k].id]

\* the first request of a client, with any valid input, starts its run through the pages
GetUsers(via, input) ==
    LET answer == getUsersVia(via, input, now)
    IN  /\ pages.via = "none"
        /\ pages' = [via |-> via, input |-> input, start |-> input.offset, at |-> now,
                  answer |-> answer, seen |-> Ids(answer.users)]

\* the client advances offset by limit while the last answer says hasMore
GetNextPage(via) ==
    /\ pages.via # "none"
    /\ pages.answer.hasMore
    /\ LET input == [pages.input EXCEPT !.offset = @ + pages.input.limit]
           answer == getUsersVia(via, input, now)
       IN  pages' = [pages EXCEPT !.via = via, !.input = input, !.at = now, !.answer = answer,
                                  !.seen = @ \o Ids(answer.users)]

PageInit == RepoInit /\ GenIdle /\ CodecIdle /\ StoreIdle /\ ServiceIdle /\ PageIdle

PageNext ==
    \/ \E via \in Vias, limit \in Limits, offset \in Offsets, search \in Searches :
          /\ GetUsers(via, [limit |-> limit, offset |-> offset, search |-> search])
          /\ UNCHANGED <<repoVars, genVars, codecVars, storeVars, serviceVars>>
    \/ \E via \in Vias :
          GetNextPage(via) /\ UNCHANGED <<repoVars, genVars, codecVars, storeVars, serviceVars>>
    \/ Tick /\ UNCHANGED <<genVars, codecVars, storeVars, serviceVars, pageVars>>

PageSpec == PageInit /\ [][PageNext]_vars

-----------------------------------------------------------------------------
(* Tenant-scoped repository: properties *)

AnyHex(c) == HexVal(c) >= 0

\* hhhhhhhh-hhhh-hhhh-hhhh-hhhhhhhhhhhh, h a hex digit
MatchesFixedPattern(text) ==
    /\ Len(text) = 36
    /\ \A k \in 1..36 : IF k \in {9, 14, 19, 24} THEN text[k] = DASH ELSE AnyHex(text[k])

AnyLive == \E i \in RowIdx(contacts) : contacts[i].deletedAt = NULL

TenantIsolationWrites ==
    \A tenantId \in TenantIds, id \in ContactIds, i \in RowIdx(contacts) :
        contacts[i].tenantId # tenantId =>
            /\ softDeleteRows(contacts, id, tenantId, now)[i] = contacts[i]
            /\ \A data \in Patches :
                  updateRows(contacts, id, tenantId, data, now)[i] = contacts[i]

\* tenant B has updated and soft-deleted records of its own while tenant A
\* holds a live record that was never written after its creation
ForeignWritesDone ==
    \E i, j \in RowIdx(contacts) :
        /\ contacts[i].tenantId = "A" /\ contacts[i].deletedAt = NULL
        /\ contacts[i].updatedAt = contacts[i].createdAt
        /\ contacts[j].tenantId = "B" /\ contacts[j].updatedAt > contacts[j].createdAt
        /\ <<contacts[j].id, "B">> \in softDeleted.once
        /\ Target(contacts, contacts[i].id, "B") = "foreign"

\* C3 -- soft-delete exclusion: once softDelete has matched (id, tenantId),
\* findById(id, tenantId) finds nothing and every update(id, tenantId, patch)
\* answers CONTACT_NOT_FOUND and changes no row.
SoftDeleteExclusion ==
    \A k \in softDeleted.once :
        /\ findById(contacts, k[1], k[2]).type = CONTACT_NOT_FOUND
        /\ \A data \in Patches :
              /\ updateResult(contacts, k[1], k[2], data, now) = CONTACT_NOT_FOUND
              /\ updateRows(contacts, k[1], k[2], data, now) = contacts

\* softDelete has succeeded on a record, time has passed, and other records are live
AfterSoftDelete ==
    \E k \in softDeleted.once :
        /\ Target(contacts, k[1], k[2]) = "deleted"
        /\ AnyLive
        /\ \E i \in RowIdx(contacts) : contacts[i].id = k[1] /\ contacts[i].deletedAt < now

\* C4 -- idempotent delete: softDelete answers Ok on a live record, on an
\* already deleted record and on a record that does not exist.
IdempotentDelete ==
    \A tenantId \in TenantIds, id \in ContactIds :
        softDeleteResult(contacts, id, tenantId) = Ok

\* softDelete has run twice on one (id, tenantId) and some id is still unused
SecondSoftDeleteDone ==
    /\ softDeleted.again # {}
    /\ \E tenantId \in TenantIds, id \in ContactIds : Target(contacts, id, tenantId) = "none"

\* C5 -- softDelete on an already soft-deleted or nonexistent record updates
\* nothing: deletedAt keeps the value the first softDelete set.
SoftDeleteUpdatesNothingTwice ==
    \A tenantId \in TenantIds, id \in ContactIds :
        (<<id, tenantId>> \in softDeleted.once \/ Target(contacts, id, tenantId) = "none") =>
            softDeleteRows(contacts, id, tenantId, now) = contacts

UpdateNotFoundOnNoMatch ==
    \A tenantId \in TenantIds, id \in ContactIds, data \in Patches :
        Target(contacts, id, tenantId) # "live" =>
            /\ updateResult(contacts, id, tenantId, data, now) = CONTACT_NOT_FOUND
            /\ updateRows(contacts, id, tenantId, data, now) = contacts

\* later than every write so far, update can be aimed at a record of another
\* tenant and at a soft-deleted record
UpdateMissesOfEveryKind ==
    /\ \E tenantId \in TenantIds, id \in ContactIds : Target(contacts, id, tenantId) = "foreign"
    /\ \E tenantId \in TenantIds, id \in ContactIds : Target(contacts, id, tenantId) = "deleted"
    /\ \A i \in RowIdx(contacts) : contacts[i].updatedAt < now

\* C20 -- a record keeps its id and its tenantId for its whole lifetime:
\* no update or softDelete, with whatever patch, changes the id or the
\* tenantId of a stored record.
IdAndTenantImmutable ==
    [][\A i \in RowIdx(contacts) :
          /\ contacts'[i].id = contacts[i].id
          /\ contacts'[i].tenantId = contacts[i].tenantId]_vars

\* C21 -- DELETED is terminal: once a record's deletedAt is set, no create,
\* update or softDelete makes it null again, and no call removes a record.
DeletedIsTerminal ==
    [][/\ Len(contacts') >= Len(contacts)
       /\ \A i \in RowIdx(contacts) :
             contacts[i].deletedAt # NULL => contacts'[i].deletedAt # NULL]_vars

\* a record was soft-deleted twice and a record created later is live
DeletedAndLaterWrites ==
    \E i, j \in RowIdx(contacts) :
        /\ <<contacts[i].id, contacts[i].tenantId>> \in softDeleted.again
        /\ contacts[i].deletedAt # NULL
        /\ i < j /\ contacts[j].deletedAt = NULL /\ contacts[j].createdAt > 1

\* what a successful update(id, p) of tenant t at the instant now may leave
\* in row i, given the row before it
UpdateFrame(before, after, t, id, p) ==
    IF before.id = id /\ before.tenantId = t /\ before.deletedAt = NULL
      THEN /\ after.createdAt = before.createdAt
           /\ after.updatedAt = now
           /\ after.id = (IF p.id = ABSENT THEN before.id ELSE p.id)
           /\ after.tenantId = (IF p.tenantId = ABSENT THEN before.tenantId ELSE p.tenantId)
           /\ after.email = (IF p.email = ABSENT THEN before.email ELSE p.email)
           /\ after.deletedAt = (IF p.deletedAt = AbsentDate THEN before.deletedAt ELSE p.deletedAt)
      ELSE after = before

\* C27 -- a successful update changes only the fields present in the patch
\* plus updatedAt, which becomes the time of the update even when the patch
\* carries its own updatedAt; createdAt and every field absent from the patch
\* keep their previous values, and no other record is touched.
UpdateChangesOnlyPatchedFields ==
    [][\A t \in TenantIds, id \in ContactIds, p \in Patches :
          (/\ updateResult(contacts, id, t, p, now) = Ok
           /\ contacts' = updateRows(contacts, id, t, p, now))
          => /\ Len(contacts') = Len(contacts)
             /\ \A i \in RowIdx(contacts) : UpdateFrame(contacts[i], contacts'[i], t, id, p)]_vars

\* C19 -- create gives the new record an id different from the id of every
\* record already stored, sets createdAt = updatedAt = the creation instant,
\* leaves the record live, and returns the entity with its identifiers in
\* canonical text form (createContact and createActivity of the example
\* repository, under every storage strategy).
CreateReturnsFreshCanonicalEntity ==
    store.returned.kind \in {"contact", "activity"} =>
        LET e == store.returned.entity
            rows == IF store.returned.kind = "contact" THEN store.contacts ELSE store.activities
            row == rows[Len(rows)]
        IN  /\ row.id = storedId(store.storageStrategy, e.id)
            /\ \A i \in 1..(Len(rows) - 1) : rows[i].id # row.id
            /\ e.createdAt = e.updatedAt /\ row.created_at = e.createdAt
            /\ row.updated_at = e.updatedAt
            /\ store.returned.kind = "contact" => row.deleted_at = NULL
            /\ MatchesFixedPattern(e.id) /\ MatchesFixedPattern(e.tenantId)

\* C23 -- the storage encoding is never visible to callers and the three
\* strategies behave alike: what findContactById and getRecentActivities hand
\* back is the same under BLOB, COMPACT_STRING and FULL_STRING, that is, it
\* holds no value that depends on the strategy, and every id, contactId and
\* tenantId in it is the canonical 36-character string that was passed in or
\* generated.
StorageEncodingNeverVisible ==
    /\ store.returned.kind = "found" =>
          LET e == store.returned.entity
          IN  /\ MatchesFixedPattern(e.id) /\ MatchesFixedPattern(e.tenantId)
              /\ e.tenant_id = e.tenantId
              /\ \E i \in DOMAIN store.contacts :
                    /\ store.contacts[i].id = storedId(store.storageStrategy, e.id)
                    /\ store.contacts[i].tenant_id = storedId(store.storageStrategy, e.tenantId)
    /\ store.returned.kind = "activities" =>
          \A k \in DOMAIN store.returned.entity :
              LET e == store.returned.entity[k]
              IN  /\ MatchesFixedPattern(e.id)
                  /\ MatchesFixedPattern(e.contactId) /\ MatchesFixedPattern(e.tenantId)
                  /\ e.contact_id = e.contactId /\ e.tenant_id = e.tenantId

-----------------------------------------------------------------------------
(* Identifier codec and generator: properties *)

\* C6 -- round-trip law: whatever chain of encodings a canonical identifier
\* goes through (stringToBytes/bytesToString, stringToCompact/compactToString,
\* toBlob/fromBlob), each decode gives back the identifier that was encoded.
RoundTripLaw ==
    codec.form = "canonical" => codec.data = codec.orig

\* an identifier has been through all three encodings and is canonical again
RoundTripsDone ==
    /\ codec.form = "canonical"
    /\ codec.through = {"bytes", "compact", "blob"}
    /\ codec.orig = Canonical(Nibbles(0, 5))

LowerHex(c) == (c >= 48 /\ c <= 57) \/ (c >= 97 /\ c <= 102)

\* the canonical 36-character form of a version 7 identifier made at instant t
IsCanonicalV7(text, t) ==
    /\ Len(text) = 36
    /\ \A k \in 1..36 : IF k \in {9, 14, 19, 24} THEN text[k] = DASH ELSE LowerHex(text[k])
    /\ SubSeq(text, 1, 8) \o SubSeq(text, 10, 13) = LimbHex(t[1]) \o LimbHex(t[2]) \o LimbHex(t[3])
    /\ text[15] = SEVEN

\* C7 -- every identifier of every time-ordered generator (the three copies
\* of generateUUIDv7, the string inside createActivityId) is canonical: 36
\* characters, groups 8-4-4-4-12, timestamp in the first 12 digits, version 7.
GeneratedAreCanonical ==
    \A i \in DOMAIN generated : IsCanonicalV7(generated[i].text, generated[i].at)

\* C28 -- every identifier of the creators of lib/utils.ts is accepted by
\* isValidUUID of the same module: those of generateUUIDv4 (createContactId ..
\* createUserId) and those of generateUUIDv7 (createMeetingId .. createFileId).
CreatorsPassIsValidUUID ==
    \A i \in DOMAIN generated :
        generated[i].by = "generateUUIDv7" =>
            /\ isValidUUID(generateUUIDv4(generated[i].random))
            /\ isValidUUID(generated[i].text)

\* C8 -- timestamp recovery: extractTimestamp of a generated identifier is
\* the instant it was generated at; for createActivityId also from its bytes.
TimestampRecovery ==
    \A i \in DOMAIN generated :
        /\ extractTimestamp(generated[i].text) = generated[i].at
        /\ generated[i].by = "createActivityId" =>
              extractTimestampBytes(generated[i].blob) = generated[i].at

\* identifiers were generated at 1700000000000 by an example copy and by the library copy
RecoveredExampleInstant ==
    \E i, j \in DOMAIN generated :
        /\ generated[i].at = <<395, 53221, 26624>> /\ generated[j].at = <<395, 53221, 26624>>
        /\ generated[i].by = "generateUUIDv7Blob" /\ generated[j].by = "generateUUIDv7"

\* C30 -- extractTimestamp gives the same timestamp for the string form and
\* for the 16-byte form of an identifier: for every generated identifier s,
\* extractTimestamp(s) = extractTimestamp(stringToBytes(s)), and the bytes
\* createActivityId returns give the timestamp of the string it built.
TimestampSameFromTextAndBytes ==
    \A i \in DOMAIN generated :
        /\ extractTimestamp(generated[i].text)
              = extractTimestampBytes(stringToBytes(generated[i].text))
        /\ generated[i].by = "createActivityId" =>
              extractTimestampBytes(generated[i].blob) = extractTimestamp(generated[i].text)

\* identifiers whose timestamp bytes need padding (01 and 00 among them) were
\* generated by the example generator and by createActivityId
PaddedTimestampBytesGenerated ==
    \E i, j \in DOMAIN generated :
        /\ generated[i].by = "generateUUIDv7Blob" /\ generated[i].at = <<395, 53221, 26624>>
        /\ stringToBytes(generated[i].text)[1] = 1 /\ stringToBytes(generated[i].text)[6] = 0
        /\ generated[j].by = "createActivityId" /\ generated[j].at = <<0, 0, 9>>
        /\ Len(generated[j].blob) = 16

RECURSIVE SeqLess(_, _)
\* the < of two strings, or of two byte arrays compared element by element
SeqLess(x, y) ==
    IF Len(y) = 0 THEN FALSE
    ELSE IF Len(x) = 0 THEN TRUE
    ELSE IF Head(x) # Head(y) THEN Head(x) < Head(y)
    ELSE SeqLess(Tail(x), Tail(y))

BinaryOf(g) == IF g.by = "createActivityId" THEN g.blob ELSE stringToBytes(g.text)

\* C9 -- temporal monotonicity: of two identifiers generated at instants
\* t1 < t2, the first sorts strictly before the second as text and as bytes.
TemporalMonotonicity ==
    \A i, j \in DOMAIN generated :
        TimeLess(generated[i].at, generated[j].at) =>
            /\ SeqLess(generated[i].text, generated[j].text)
            /\ SeqLess(BinaryOf(generated[i]), BinaryOf(generated[j]))

\* at 9 ms an identifier with an all-f tail, at 16 ms one with a low tail
OrderedAcrossDigitCarry ==
    \E i, j \in DOMAIN generated :
        /\ generated[i].at = <<0, 0, 9>> /\ generated[j].at = <<0, 0, 16>>
        /\ generated[i].random = RandomV4(Nibbles(0, 15))
        /\ generated[j].random = RandomV4(Nibbles(1, 0))
        /\ generated[i].by = "generateUUIDv7" /\ generated[j].by = "createActivityId"

\* the offset in the 36-character text of hex digit k (0-based)
TextOffset(k) ==
    k + (IF k >= 8 THEN 1 ELSE 0) + (IF k >= 12 THEN 1 ELSE 0)
      + (IF k >= 16 THEN 1 ELSE 0) + (IF k >= 20 THEN 1 ELSE 0)

\* C10 -- binary layout: the BINARY encoding is 16 bytes, byte j holding hex
\* digits 2j and 2j+1 of the text; the example identifier encodes to
\* 55 0e 84 00 e2 9b 41 d4 a7 16 44 66 55 44 00 00 and decodes to itself.
BinaryLayout ==
    /\ codec.form \in {"bytes", "blob"} =>
          /\ Len(codec.data) = 16
          /\ \A j \in 0..15 :
                codec.data[j + 1] = 16 * HexVal(codec.orig[TextOffset(2 * j) + 1])
                                      + HexVal(codec.orig[TextOffset(2 * j + 1) + 1])
          /\ codec.orig = ExampleId => codec.data = ExampleBytes
    /\ (codec.form = "canonical" /\ codec.orig = ExampleId) => codec.data = ExampleId

\* the example identifier has been encoded as BINARY and decoded again
ExampleDecoded ==
    /\ codec.orig = ExampleId
    /\ codec.form = "canonical"
    /\ codec.through = {"bytes"}

\* the storage strategy whose encoding a form of the travelling value is
StrategyOf(form) ==
    CASE form = "bytes" -> BLOB
      [] form = "compact" -> COMPACT_STRING
      [] OTHER -> FULL_STRING

\* the canonical text of the travelling value, decoded from the form it is in
DecodedNow ==
    IF codec.form = "blob" THEN fromBlob(codec.data)
    ELSE convertStoredIdToString(StrategyOf(codec.form), codec.data)

\* C11 -- cross-encoding equivalence: a value in any encoding E1, converted
\* to any encoding E2 through the canonical form and decoded with E2, is the
\* identifier that was first encoded; so is the end of the chain
\* canonical -> compact -> canonical -> binary -> canonical.
CrossEncodingEquivalence ==
    \A E2 \in UUIDStorageStrategy :
        convertStoredIdToString(E2, storedId(E2, DecodedNow)) = codec.orig

\* the example identifier went canonical -> compact -> canonical -> binary -> canonical
CrossEncodingChainDone ==
    /\ codec.orig = ExampleId
    /\ codec.form = "canonical"
    /\ codec.through = {"compact", "bytes"}

\* C12 -- every storage encoding preserves ordering: an identifier a sorts
\* before an identifier b as canonical text exactly when its BINARY encoding
\* sorts before b's byte by byte, and exactly when its compact text does.
OrderingPreserved ==
    \A b \in CanonicalIds \cup NeighbourIds :
        /\ codec.form = "bytes" =>
              (SeqLess(codec.orig, b) <=> SeqLess(codec.data, stringToBytes(b)))
        /\ codec.form = "blob" =>
              (SeqLess(codec.orig, b) <=> SeqLess(codec.data, toBlob(b)))
        /\ codec.form = "compact" =>
              (SeqLess(codec.orig, b) <=> SeqLess(codec.data, stringToCompact(b)))

\* ...0009 is encoded as BINARY; ...000a and ...0010 differ from it in the last byte only
NeighboursEncoded ==
    /\ codec.orig = Neighbour(32, 9)
    /\ codec.form = "bytes"
    /\ SeqLess(codec.orig, Neighbour(32, 10)) /\ SeqLess(Neighbour(32, 10), Neighbour(31, 1))

-----------------------------------------------------------------------------
(* Decoding outside input: properties *)

TextDecoders == {"stringToBytes", "toBlob", "stringToCompact", "compactToString"}
ByteDecoders == {"bytesToString", "fromBlob"}

\* the width of the encoding a function reads: 36, 32 characters or 16 bytes
ExpectedWidth(fn) ==
    CASE fn \in {"stringToBytes", "toBlob", "stringToCompact"} -> 36
      [] fn = "compactToString" -> 32
      [] OTHER -> 16

\* hex digits everywhere, and for the 36-character form separators at offsets 8, 13, 18, 23 only
WellFormedText(fn, text) ==
    IF fn = "compactToString" THEN \A k \in DOMAIN text : AnyHex(text[k])
    ELSE \A k \in DOMAIN text : IF k \in {9, 14, 19, 24} THEN text[k] = DASH ELSE AnyHex(text[k])

\* C13 -- decode fails with MalformedLength whenever the size of the input is
\* not the width of the encoding (16 bytes, 32 or 36 characters); it never
\* returns a value for a wrong-sized input.
DecodeRejectsWrongSize ==
    (call.fn \in TextDecoders \cup ByteDecoders /\ Len(call.input) # ExpectedWidth(call.fn))
        => call.outcome = "MalformedLength"

\* C14 -- decode is all-or-nothing on bad characters: a text input of the
\* right size with a non-hex character, or with a separator at a wrong
\* position, yields InvalidCharacter and never a decoded value.
DecodeRejectsBadCharacters ==
    (/\ call.fn \in TextDecoders
     /\ Len(call.input) = ExpectedWidth(call.fn)
     /\ ~WellFormedText(call.fn, call.input))
        => call.outcome = "InvalidCharacter"

\* C15 -- isValidUUID accepts a string exactly when it matches the fixed
\* pattern hhhhhhhh-hhhh-hhhh-hhhh-hhhhhhhhhhhh and rejects every other string.
ValidatorAcceptsFixedPattern ==
    call.fn = "isValidUUID" => (call.value <=> MatchesFixedPattern(call.input))

\* C15, amended -- isValidUUID accepts a string exactly when it matches the
\* fixed pattern and moreover its version digit (the 13th hex digit) is one
\* of 1..7 and its variant digit (the 17th) one of 8, 9, a, b, in either case.
ValidatorAcceptsVersionedPattern ==
    call.fn = "isValidUUID" =>
        (call.value <=>
            /\ MatchesFixedPattern(call.input)
            /\ HexVal(call.input[15]) \in 1..7
            /\ HexVal(call.input[20]) \in 8..11)

\* the nil identifier, which matches the fixed pattern, was validated and rejected
NilIdentifierRejected ==
    /\ call.fn = "isValidUUID"
    /\ call.input = Canonical(Nibbles(0, 0))
    /\ MatchesFixedPattern(call.input)
    /\ call.value = FALSE

\* C16 -- extractTimestamp called on a RANDOM (version 4) identifier fails
\* with WrongScheme and returns no timestamp.
ExtractTimestampRejectsRandom ==
    (/\ call.fn = "extractTimestamp"
     /\ isValidUUID(call.input)
     /\ call.input[15] = 52)
        => call.outcome = "WrongScheme"

-----------------------------------------------------------------------------
(* Properties of ContactService and contactRouter *)

\* C22 -- error-to-transport mapping: in every contact procedure a not-found
\* error is answered with NOT_FOUND, a duplicate with CONFLICT, a database
\* failure with the 5xx code INTERNAL_SERVER_ERROR, and no kind of error is
\* answered with the code of another kind.
ErrorKindsKeepTheirCodes ==
    \A s \in Slots :
        reqs[s].pc = "done" =>
            /\ reqs[s].result = CONTACT_NOT_FOUND <=> reqs[s].code = NOT_FOUND
            /\ reqs[s].result = DUPLICATE_EMAIL <=> reqs[s].code = CONFLICT
            /\ reqs[s].result = DATABASE_ERROR <=> reqs[s].code = INTERNAL_SERVER_ERROR

\* C24 -- within one tenant no two live contacts hold the same email, however
\* the repository calls of concurrent createContact and updateContact
\* requests interleave.
LiveEmailUnique ==
    \A i, j \in RowIdx(contacts) :
        /\ i # j
        /\ contacts[i].tenantId = contacts[j].tenantId
        /\ contacts[i].deletedAt = NULL /\ contacts[j].deletedAt = NULL
        => contacts[i].email # contacts[j].email

\* the email of request r is held by a live contact of its tenant other than
\* the contact the request updates
HeldByAnother(r) ==
    \E i \in RowIdx(contacts) :
        /\ contacts[i].email = r.email
        /\ contacts[i].tenantId = r.tenantId
        /\ contacts[i].deletedAt = NULL
        /\ r.op = "update" => contacts[i].id # r.id

\* C25 -- with one request at a time, createContact with an email held by a
\* live contact of the tenant, and updateContact setting an email held by a
\* different live contact of the tenant, answer DUPLICATE_EMAIL and leave the
\* table as it was; no other request is answered DUPLICATE_EMAIL (holders in
\* other tenants, soft-deleted holders and the contact's own email do not
\* count).
DuplicateEmailRejected ==
    [][\A s \in Slots :
          (reqs[s].op \in {"create", "update"} /\ InFlight(reqs[s]) /\ reqs'[s].pc = "done") =>
              IF HeldByAnother(reqs[s])
                THEN reqs'[s].result = DUPLICATE_EMAIL /\ contacts' = contacts
                ELSE reqs'[s].result # DUPLICATE_EMAIL]_vars

\* a create was refused for an email whose only other holder in the table is
\* a soft-deleted contact of the same tenant that did not keep its live
\* holder from being created
DuplicateRefusedBesideDeletedHolder ==
    /\ reqs[1].op = "create" /\ reqs[1].pc = "done" /\ reqs[1].result = DUPLICATE_EMAIL
    /\ \E i, j \in RowIdx(contacts) :
          /\ i < j
          /\ contacts[i].email = contacts[j].email
          /\ contacts[i].tenantId = contacts[j].tenantId
          /\ contacts[i].deletedAt # NULL /\ contacts[j].deletedAt = NULL

-----------------------------------------------------------------------------
(* Properties of getUsers *)

\* the filtered list: the users, in order, whose name or email contains the
\* search text whatever the case of the letters; all users without a search
FilteredList(search, t) ==
    LET all == [k \in 1..UserCount |-> User(k - 1, t)]
    IN  IF Truthy(search) THEN SelectSeq(all, LAMBDA u : UserMatches(u, search)) ELSE all

=============================================================================
